---------------------------- MODULE Spec2Model ----------------------------
(***************************************************************************)
(* A model of foi_scraper: the driver loop of foi_scraper/__main__.py, the *)
(* field extractor, the pagination navigator and the three files the       *)
(* program keeps (foi_requests.csv, pages.txt, total_requests.txt).        *)
(*                                                                         *)
(* Text is a sequence of chunks.  A chunk [w, d, y] renders as the word w  *)
(* when d = 0 and as "w D, Y" with d day digits and y year digits else.    *)
(* A link target (href) and a URL are sequences of path tokens.            *)
(* One action models one whole function call of the driver loop; a kill or *)
(* a fault can fall between two calls.  A CSV file is the sequence of its  *)
(* rows, a row the tuple of its fields: csv.writer's quoting and escaping  *)
(* are not modelled.                                                       *)
(***************************************************************************)
EXTENDS Integers, Sequences, FiniteSets, TLC

\* The driver starts at most MaxFetches pages over all runs of a behaviour.
MaxFetches == 3

VARIABLES
    site,         \* the web site: URL -> the next-page anchors of the page served there
    csv,          \* foi_requests.csv: [exists, rows]
    pagesLog,     \* pages.txt: the lines (URLs) written so far
    counter,      \* total_requests.txt: [exists, text]
    pc,           \* the driver's position
    err,          \* the exception that ended the run ("" when none)
    page_,        \* __main__.page_
    soup_,        \* __main__.soup_
    result_,      \* __main__.result_
    fetches,      \* pages started over all runs
    steps,        \* history: the calls made in the current loop iteration, in order
    fetched,      \* history: the URLs fetched in this in order
    written,      \* history: every data row ever written to foi_requests.csv
    started,      \* history: the three files as the run found them
    completed,    \* history: per page of this run whose counter update is done
    logTotal      \* history: the cumulative total of the last success log line

vars == <<site, csv, pagesLog, counter, pc, err, page_, soup_, result_,
          fetches, steps, fetched, written, started, completed, logTotal>>

--------------------------------------------------------------------------
\* Text

W(s) == [w |-> s, d |-> 0, y |-> 0]
WS == W(" ")

Months == {"January", "February", "March", "April", "May", "June", "July",
           "August", "September", "October", "November", "December"}

RECURSIVE LStrip(_)
LStrip(t) == IF t # <<>> /\ Head(t) = WS THEN LStrip(Tail(t)) ELSE t

RECURSIVE RStrip(_)
RStrip(t) ==
    IF t # <<>> /\ t[Len(t)] = WS THEN RStrip(SubSeq(t, 1, Len(t) - 1)) ELSE t

\* str.strip()
Strip(t) == RStrip(LStrip(t))

\* MONTH_DAY_YEAR on one chunk: a month name, a space, one or two day digits,
\* ", " and four year digits; a longer year matches in its first four digits.
DateMatches(c) == c.w \in Months /\ c.d \in 1..2 /\ c.y >= 4
DateGroup(c) == <<[w |-> c.w, d |-> c.d, y |-> 4]>>

\* MONTH_DAY_YEAR.search(text): the leftmost match, or none
RECURSIVE MONTH_DAY_YEAR_search(_)
MONTH_DAY_YEAR_search(t) ==
    IF t = <<>> THEN [found |-> FALSE, group |-> <<>>]
    ELSE IF DateMatches(Head(t)) THEN [found |-> TRUE, group |-> DateGroup(Head(t))]
    ELSE MONTH_DAY_YEAR_search(Tail(t))

\* Whether the text holds a "Month D, YYYY" substring at all
HasDate(t) == \E i \in 1..Len(t) : DateMatches(t[i])

--------------------------------------------------------------------------
\* The document tree

\* A description block is a sequence of nodes: spans and bare text.
Span(t) == [span |-> TRUE, text |-> t]
Bare(t) == [span |-> FALSE, text |-> t]

RECURSIVE SelectSpans(_)
SelectSpans(nodes) ==
    IF nodes = <<>> THEN <<>>
    ELSE IF Head(nodes).span THEN <<Head(nodes).text>> \o SelectSpans(Tail(nodes))
    ELSE SelectSpans(Tail(nodes))

\* meta.find_all("span"): the texts of the spans, in document order
FindSpans(meta) == SelectSpans(meta)

\* meta.get_text(): the text of every node, concatenated
RECURSIVE GetText(_)
GetText(nodes) ==
    IF nodes = <<>> THEN <<>> ELSE Head(nodes).text \o GetText(Tail(nodes))


--------------------------------------------------------------------------
\* Field Extractor

CSV_HEADERS == <<<<W("title")>>, <<W("agency")>>, <<W("requester name")>>,
                 <<W("request date")>>, <<W("purpose")>>, <<W("status")>>,
                 <<W("coverage")>>, <<W("tracking number")>>>>

Min2(a, b) == IF a <= b THEN a ELSE b

\* The request dates found, in page order: a description without a match
\* contributes nothing (request_dates.append runs only under the match).
RECURSIVE CollectDates(_, _)
CollectDates(descs, n) ==
    IF n = 0 THEN <<>>
    ELSE LET m == MONTH_DAY_YEAR_search(Strip(GetText(descs[n])))
         IN  CollectDates(descs, n - 1) \o (IF m.found THEN <<m.group>> ELSE <<>>)

\* extract_content(soup): [ok, count, rows].  ok = FALSE is the IndexError of
\* metadata[k] on a description with fewer than five spans.
extract_content(soup) ==
    LET n == Min2(Len(soup.descs), Min2(Len(soup.stats), Len(soup.titles)))
        metadata(i) == FindSpans(soup.descs[i])
        titles == [i \in 1..n |-> Strip(soup.titles[i])]
        agencies == [i \in 1..n |-> Strip(metadata(i)[1])]
        requesters == [i \in 1..n |-> Strip(metadata(i)[2])]
        request_dates == CollectDates(soup.descs, n)
        purposes == [i \in 1..n |-> Strip(metadata(i)[3])]
        statuses == [i \in 1..n |-> Strip(soup.stats[i])]
        coverages == [i \in 1..n |-> Strip(metadata(i)[4])]
        tracking_nums == [i \in 1..n |-> Strip(metadata(i)[5])]
        m == Min2(n, Len(request_dates))
    IN  IF \E i \in 1..n : Len(metadata(i)) < 5
        THEN [ok |-> FALSE, count |-> 0, rows |-> <<>>]
        ELSE [ok |-> TRUE,
              count |-> Len(titles),
              rows |-> [k \in 1..m |->
                          <<titles[k], agencies[k], requesters[k], request_dates[k],
                            purposes[k], statuses[k], coverages[k], tracking_nums[k]>>]]

--------------------------------------------------------------------------
\* Pagination Navigator

FOI_URL == "https://www.foi.gov.ph"
REQUESTS == <<"/", "requests">>

\* "/requests" in href
Contains(frag, s) ==
    \E i \in 1..(Len(s) - Len(frag) + 1) : SubSeq(s, i, i + Len(frag) - 1) = frag

\* As fetch_next_url with a class filter that matches no anchor
fetch_next_url_unmatched(soup) == [kind |-> "none", href |-> <<>>]

\* fetch_next_url(soup): "none" is None, "url" a link target, "KeyError" the
\* exception of tag["href"] on an anchor without that attribute, which the
\* except IndexError clause does not catch.
fetch_next_url(soup) ==
    IF soup.anchors = <<>> THEN [kind |-> "none", href |-> <<>>]
    ELSE LET a == soup.anchors[1]
         IN  IF ~a.hasHref THEN [kind |-> "KeyError", href |-> <<>>]
             ELSE IF ~Contains(REQUESTS, a.href) THEN [kind |-> "none", href |-> <<>>]
             ELSE [kind |-> "url", href |-> a.href]

\* f"{FOI_URL}/requests" and f"{FOI_URL}/{url_}"
RootUrl == <<FOI_URL>> \o REQUESTS
JoinUrl(href) == <<FOI_URL, "/">> \o href

--------------------------------------------------------------------------
\* Progress Recorder: the counter file's text

Digits == <<"0", "1", "2", "3", "4", "5", "6", "7", "8", "9">>
IsDigit(c) == \E i \in 1..10 : Digits[i] = c
DigitVal(c) == (CHOOSE i \in 1..10 : Digits[i] = c) - 1
IsSpace(c) == c \in {" ", "\n"}

RECURSIVE TrimLeft(_)
TrimLeft(s) == IF s # <<>> /\ IsSpace(Head(s)) THEN TrimLeft(Tail(s)) ELSE s

RECURSIVE TrimRight(_)
TrimRight(s) ==
    IF s # <<>> /\ IsSpace(s[Len(s)]) THEN TrimRight(SubSeq(s, 1, Len(s) - 1)) ELSE s

RECURSIVE DigitsValue(_)
DigitsValue(s) ==
    IF s = <<>> THEN 0
    ELSE 10 * DigitsValue(SubSeq(s, 1, Len(s) - 1)) + DigitVal(s[Len(s)])

\* int(text): [ok, val]; ok = FALSE is the ValueError.  Surrounding white
\* space and one sign are accepted, then at least one digit and only digits.
ParseInt(text) ==
    LET t == TrimRight(TrimLeft(text))
        signed == t # <<>> /\ Head(t) \in {"-", "+"}
        body == IF signed THEN Tail(t) ELSE t
    IN  IF body # <<>> /\ \A i \in 1..Len(body) : IsDigit(body[i])
        THEN [ok |-> TRUE,
              val |-> IF signed /\ Head(t) = "-" THEN 0 - DigitsValue(body)
                      ELSE DigitsValue(body)]
        ELSE [ok |-> FALSE, val |-> 0]

RECURSIVE NatStr(_)
NatStr(n) == IF n < 10 THEN <<Digits[n + 1]>> ELSE NatStr(n \div 10) \o <<Digits[(n % 10) + 1]>>

\* str(num)
IntStr(n) == IF n < 0 THEN <<"-">> \o NatStr(0 - n) ELSE NatStr(n)

\* As CounterReadable with a read that falls back to 0
CounterReadableOrZero(file) == TRUE

\* Whether open(...).read() followed by int() succeeds on the counter file
CounterReadable(file) == file.exists /\ ParseInt(file.text).ok
CounterValue(file) == ParseInt(file.text).val


--------------------------------------------------------------------------
\* The pages the site can serve

Title(i) == <<WS, W(<<"Budget", "Roads">>[i]), WS>>
Status(i) == <<W(<<"SUCCESSFUL", "DENIED">>[i])>>
Agency(i) == <<W(<<"DOH", "DPWH">>[i])>>
Requester(i) == <<WS, W(<<"Juan", "Maria">>[i])>>
Purpose(i) == <<W(<<"Research", "Audit">>[i]), WS>>
Coverage(i) == <<W(<<"2019", "2020">>[i])>>
Tracking(i) == <<W(<<"#DOH-1", "#DPWH-2">>[i])>>

\* What stands where a listing shows its request date
FullDate(i) == [w |-> <<"January", "March">>[i], d |-> i, y |-> 4]
LongYear(i) == [w |-> <<"January", "March">>[i], d |-> i, y |-> 5]
ShortMonth(i) == [w |-> <<"Jan", "Mar">>[i], d |-> i, y |-> 4]

\* One listing's description block: five spans around the date text
Description(i, date) ==
    <<Span(Agency(i)), Bare(<<WS, W("by"), WS>>), Span(Requester(i)),
      Bare(<<WS, W("at"), WS, date, WS>>), Span(Purpose(i)), Span(Coverage(i)),
      Span(Tracking(i)), Bare(<<WS>>)>>

\* A description block that lacks its tracking-number span
ShortDescription(i) ==
    <<Span(Agency(i)), Span(Requester(i)), Bare(<<FullDate(i)>>), Span(Purpose(i)),
      Span(Coverage(i))>>

Page(descs, stats, titles) ==
    [descs |-> descs, stats |-> stats, titles |-> titles, anchors |-> <<>>]

\* Two listings, both dated
DatedPage ==
    Page(<<Description(1, FullDate(1)), Description(2, LongYear(2))>>,
         <<Status(1), Status(2)>>, <<Title(1), Title(2)>>)
\* Two listings, the first without a recognizable date
UndatedPage ==
    Page(<<Description(1, ShortMonth(1)), Description(2, FullDate(2))>>,
         <<Status(1), Status(2)>>, <<Title(1), Title(2)>>)
\* Two descriptions and titles, one status label
UnevenPage ==
    Page(<<Description(1, FullDate(1)), Description(2, FullDate(2))>>,
         <<Status(1)>>, <<Title(1), Title(2)>>)
\* One listing whose description has four spans
ShortPage == Page(<<ShortDescription(1)>>, <<Status(1)>>, <<Title(1)>>)

Bodies == {DatedPage, UndatedPage, UnevenPage, ShortPage}

\* Link targets and next-page anchors
Page2 == <<"/", "requests", "?page=2">>
Page3 == <<"/", "requests", "?page=3">>
About == <<"/", "about">>

Anchor(href) == [hasHref |-> TRUE, href |-> href]
BareAnchor == [hasHref |-> FALSE, href |-> <<>>]

\* No anchor; one without href; a stray link target before a listing one; a
\* link to the second page; a link to the third page
AnchorLists == {<<>>, <<BareAnchor>>, <<Anchor(About), Anchor(Page2)>>,
                <<Anchor(Page2)>>, <<Anchor(Page3)>>}

Urls == {RootUrl, JoinUrl(Page2), JoinUrl(Page3)}

\* The pages of the site that the first anchor of a page links to
LinksTo(anchors) ==
    IF anchors # <<>> /\ anchors[1].hasHref
    THEN {JoinUrl(anchors[1].href)} \cap Urls
    ELSE {}
LinkedFrom(s, U) == U \cup UNION {LinksTo(s[u]) : u \in U}
\* The pages a crawl from the listing root can come to
Reachable(s) == LinkedFrom(s, LinkedFrom(s, {RootUrl}))

\* A site is its reachable pages; any other URL serves a page without anchors
Sites == {s \in [Urls -> AnchorLists] : \A u \in Urls \ Reachable(s) : s[u] = <<>>}

\* total_requests.txt as the user left it: absent, not a number, or a number
NoFile == [exists |-> FALSE, text |-> <<>>]
File(text) == [exists |-> TRUE, text |-> text]
BadCounterFiles == {NoFile, File(<<>>), File(<<"n", "/", "a">>)}
CounterFiles == BadCounterFiles \cup {File(<<"7", "\n">>)}


--------------------------------------------------------------------------
\* The driver loop

NoSoup == Page(<<>>, <<>>, <<>>)
NoResult == [ok |-> TRUE, count |-> 0, rows |-> <<>>]

Running == {"init", "save", "fetch", "extract", "append", "count", "next"}
Stopped == {"done", "crashed", "killed"}

\* As After with count_requests called before append_to_csv
AfterCountFirst(call) ==
    CASE call = "init" -> "save"
      [] call = "save" -> "fetch"
      [] call = "fetch" -> "extract"
      [] call = "extract" -> "count"
      [] call = "count" -> "append"
      [] call = "append" -> "next"

\* The statement that follows each call in the body of `while True`
After(call) ==
    CASE call = "init" -> "save"
      [] call = "save" -> "fetch"
      [] call = "fetch" -> "extract"
      [] call = "extract" -> "append"
      [] call = "append" -> "count"
      [] call = "count" -> "next"

\* As WritePage with the file opened in mode "w"
WritePageTruncating(lines, url) == <<url>>

\* open("pages.txt", "a+").write(url + "\n")
WritePage(lines, url) == Append(lines, url)

\* open("foi_requests.csv", "a"), one writerow per row
WriteRows(rows, new) == rows \o new

\* As WriteHeader without the is_file() test
WriteHeaderAlways(file) == [exists |-> TRUE, rows |-> <<CSV_HEADERS>>]

\* Path(...).is_file() decides whether the header is written
WriteHeader(file) ==
    IF file.exists THEN file ELSE [exists |-> TRUE, rows |-> <<CSV_HEADERS>>]

\* As NewTotal without the value read from the file
NewTotalOverwrite(old, request_num) == request_num

\* num = int(file_object.read()) + request_num
NewTotal(old, request_num) == old + request_num

Init ==
    /\ site \in Sites
    /\ csv = [exists |-> FALSE, rows |-> <<>>]
    /\ pagesLog = <<>>
    /\ counter \in CounterFiles
    /\ pc = "init"
    /\ err = ""
    /\ page_ = RootUrl
    /\ soup_ = NoSoup
    /\ result_ = NoResult
    /\ fetches = 0
    /\ steps = <<>>
    /\ fetched = <<>>
    /\ written = <<>>
    /\ started = [csvRows |-> <<>>, pages |-> <<>>, counter |-> counter]
    /\ completed = <<>>
    /\ logTotal = 0

Raise(exception) ==
    /\ pc' = "crashed"
    /\ err' = exception

init_csv_file ==
    /\ pc = "init"
    /\ csv' = WriteHeader(csv)
    /\ started' = [started EXCEPT !.csvRows = csv'.rows]
    /\ page_' = RootUrl
    /\ pc' = After("init")
    /\ UNCHANGED <<site, pagesLog, counter, err, soup_, result_, fetches,
                   steps, fetched, written, completed, logTotal>>

save_page_url ==
    /\ pc = "save"
    /\ fetches < MaxFetches
    /\ pagesLog' = WritePage(pagesLog, page_)
    /\ fetches' = fetches + 1
    /\ steps' = <<"save">>
    /\ pc' = After("save")
    /\ UNCHANGED <<site, csv, counter, err, page_, soup_, result_, fetched,
                   written, started, completed, logTotal>>

\* parse_content(fetch_content(page_)) when the GET succeeds
fetch_content ==
    /\ pc = "fetch"
    /\ \E body \in Bodies : soup_' = [body EXCEPT !.anchors = site[page_]]
    /\ fetched' = Append(fetched, page_)
    /\ steps' = Append(steps, "fetch")
    /\ pc' = After("fetch")
    /\ UNCHANGED <<site, csv, pagesLog, counter, err, page_, result_,
                   fetches, written, started, completed, logTotal>>

\* requests.get raises: the network failure is not caught
fetch_fails ==
    /\ pc = "fetch"
    /\ Raise("ConnectionError")
    /\ UNCHANGED <<site, csv, pagesLog, counter, page_, soup_, result_,
                   fetches, steps, fetched, written, started, completed, logTotal>>

\* extract_content on each page the site can serve, evaluated once per page
\* (it reads the descriptions, status labels and titles, and no anchor)
Extracts == [body \in Bodies |-> extract_content(body)]

\* result_ = extract_content(soup_)
extract ==
    /\ pc = "extract"
    /\ steps' = Append(steps, "extract")
    /\ LET r == Extracts[[soup_ EXCEPT !.anchors = <<>>]]
       IN  IF r.ok
           THEN result_' = r /\ pc' = After("extract") /\ err' = err
           ELSE result_' = result_ /\ Raise("IndexError")
    /\ UNCHANGED <<site, csv, pagesLog, counter, page_, soup_, fetches,
                   fetched, written, started, completed, logTotal>>

\* The rows are written and the file closed before the success line reads
\* total_requests.txt, so a missing or malformed counter raises after them.
append_to_csv ==
    /\ pc = "append"
    /\ csv' = [exists |-> TRUE, rows |-> WriteRows(csv.rows, result_.rows)]
    /\ written' = written \o result_.rows
    /\ steps' = Append(steps, "append")
    /\ IF CounterReadable(counter)
       THEN /\ logTotal' = CounterValue(counter) + Len(result_.rows)
            /\ pc' = After("append")
            /\ err' = err
       ELSE /\ logTotal' = logTotal
            /\ Raise(IF counter.exists THEN "ValueError" ELSE "FileNotFoundError")
    /\ UNCHANGED <<site, pagesLog, counter, page_, soup_, result_, fetches,
                   fetched, started, completed>>

count_requests ==
    /\ pc = "count"
    /\ steps' = Append(steps, "count")
    /\ IF CounterReadable(counter)
       THEN LET num == NewTotal(CounterValue(counter), result_.count)
            IN  /\ counter' = File(IntStr(num))
                /\ completed' = Append(completed,
                                       [url |-> page_, count |-> result_.count,
                                        rows |-> result_.rows, total |-> num])
                /\ pc' = After("count")
                /\ err' = err
       ELSE /\ counter' = counter
            /\ completed' = completed
            /\ Raise(IF counter.exists THEN "ValueError" ELSE "FileNotFoundError")
    /\ UNCHANGED <<site, csv, pagesLog, page_, soup_, result_, fetches,
                   fetched, written, started, logTotal>>

\* if (url_ := fetch_next_url(soup_)) is None: break; page_ = f"{FOI_URL}/{url_}"
next_page ==
    /\ pc = "next"
    /\ steps' = Append(steps, "next")
    /\ LET url_ == fetch_next_url(soup_)
       IN  CASE url_.kind = "none" -> pc' = "done" /\ page_' = page_ /\ err' = err
             [] url_.kind = "url" ->
                  pc' = "save" /\ page_' = JoinUrl(url_.href) /\ err' = err
             [] url_.kind = "KeyError" -> Raise("KeyError") /\ page_' = page_
    /\ UNCHANGED <<site, csv, pagesLog, counter, soup_, result_, fetches,
                   fetched, written, started, completed, logTotal>>

\* The process is terminated from outside between two calls
Kill ==
    /\ pc \in Running
    /\ pc' = "killed"
    /\ UNCHANGED <<site, csv, pagesLog, counter, err, page_, soup_, result_,
                   fetches, steps, fetched, written, started, completed, logTotal>>

\* The program is started again on the files the last run left
Restart ==
    /\ pc \in Stopped
    /\ pc' = "init"
    /\ err' = ""
    /\ page_' = RootUrl
    /\ soup_' = NoSoup
    /\ result_' = NoResult
    /\ steps' = <<>>
    /\ fetched' = <<>>
    /\ completed' = <<>>
    /\ logTotal' = 0
    /\ started' = [csvRows |-> csv.rows, pages |-> pagesLog, counter |-> counter]
    /\ UNCHANGED <<site, csv, pagesLog, counter, fetches, written>>

\* One statement of the program
Step ==
    \/ init_csv_file
    \/ save_page_url
    \/ fetch_content
    \/ fetch_fails
    \/ extract
    \/ append_to_csv
    \/ count_requests
    \/ next_page

Next ==
    \/ Step
    \/ Kill
    \/ Restart

Spec == Init /\ [][Next]_vars

\* One run that nothing stops from outside: a single sequential process
\* executes its next statement until it halts or an exception ends it.
FairSpec == Init /\ [][Step]_vars /\ WF_vars(Step)


--------------------------------------------------------------------------
\* Vocabulary of the properties

RECURSIVE SumCounts(_, _)
SumCounts(pages, k) == IF k = 0 THEN 0 ELSE SumCounts(pages, k - 1) + pages[k].count

RECURSIVE RowsOf(_)
RowsOf(pages) == IF pages = <<>> THEN <<>> ELSE Head(pages).rows \o RowsOf(Tail(pages))

UrlsOf(pages) == [k \in 1..Len(pages) |-> pages[k].url]

IsPrefix(a, b) == Len(a) <= Len(b) /\ SubSeq(b, 1, Len(a)) = a

\* The calls of one loop iteration in the order of the source
Iteration == <<"save", "fetch", "extract", "append", "count", "next">>

\* extract_content has returned for the page in soup_
Extracted == Len(steps) >= 3 /\ ~(pc = "crashed" /\ err = "IndexError")

\* Every listing of the page has its title, status and description block,
\* aligned, and every description has at least five spans
CompleteListings(soup) ==
    /\ Len(soup.descs) = Len(soup.titles)
    /\ Len(soup.stats) = Len(soup.titles)
    /\ \A i \in 1..Len(soup.descs) : Len(FindSpans(soup.descs[i])) >= 5

\* The fields of listing i other than its date, from its own blocks
OwnFields(soup, i) ==
    LET spans == FindSpans(soup.descs[i])
    IN  <<Strip(soup.titles[i]), Strip(spans[1]), Strip(spans[2]), Strip(spans[3]),
          Strip(soup.stats[i]), Strip(spans[4]), Strip(spans[5])>>

WithoutDate(row) == <<row[1], row[2], row[3], row[5], row[6], row[7], row[8]>>

\* The first next-page anchor carries a link target that holds "/requests"
ValidAnchor(anchors) ==
    anchors # <<>> /\ anchors[1].hasHref /\ Contains(REQUESTS, anchors[1].href)

\* The next-page chain of a site from the listing root
RECURSIVE Walk(_, _, _)
Walk(s, u, seen) ==
    LET path == Append(seen, u)
    IN  IF s[u] = <<>> THEN [urls |-> path, ends |-> "last page"]
        ELSE IF ~ValidAnchor(s[u]) THEN [urls |-> path, ends |-> "stray anchor"]
        ELSE IF \E i \in 1..Len(path) : path[i] = JoinUrl(s[u][1].href)
             THEN [urls |-> path, ends |-> "revisit"]
        ELSE Walk(s, JoinUrl(s[u][1].href), path)

Chain(s) == Walk(s, RootUrl, <<>>).urls
IsChain(s) == Walk(s, RootUrl, <<>>).ends = "last page"
Revisits(s) == Walk(s, RootUrl, <<>>).ends = "revisit"

\* The run was ended by a fault of its surroundings or of a page's markup
Faulted ==
    \/ pc = "killed"
    \/ pc = "crashed" /\ err \in {"ConnectionError", "IndexError", "ValueError",
                                  "FileNotFoundError"}

CounterFault == pc = "crashed" /\ err \in {"ValueError", "FileNotFoundError"}

\* The lines this run added to pages.txt
LinesAdded == SubSeq(pagesLog, Len(started.pages) + 1, Len(pagesLog))
\* The rows this run added to foi_requests.csv
RowsAdded == SubSeq(csv.rows, Len(started.csvRows) + 1, Len(csv.rows))

--------------------------------------------------------------------------
\* C1: a page of N complete, aligned listings yields count = N and exactly N
\* tuples of 8 fields in the order title, agency, requester name, request
\* date, purpose, status, coverage, tracking number.
C1_Claim ==
    Extracted /\ CompleteListings(soup_) =>
        /\ result_.count = Len(soup_.titles)
        /\ Len(result_.rows) = Len(soup_.titles)
        /\ \A k \in 1..Len(result_.rows) :
              /\ Len(result_.rows[k]) = 8
              /\ WithoutDate(result_.rows[k]) = OwnFields(soup_, k)

\* C2: a record's date field is the "Month D, YYYY" substring of its own
\* description; a record whose description has none is still emitted, with
\* 7 fields, its other fields unchanged.
C2_Claim ==
    Extracted =>
        \A i \in 1..result_.count :
            /\ i <= Len(result_.rows)
            /\ LET text == Strip(GetText(soup_.descs[i]))
               IN  IF HasDate(text)
                   THEN /\ Len(result_.rows[i]) = 8
                        /\ result_.rows[i][4] = MONTH_DAY_YEAR_search(text).group
                        /\ WithoutDate(result_.rows[i]) = OwnFields(soup_, i)
                   ELSE result_.rows[i] = OwnFields(soup_, i)

\* C3: the navigator has exactly two outcomes: STOP when the page has no
\* next-page anchor or when the first anchor's link target lacks "/requests",
\* else the link target unchanged; after STOP the driver fetches nothing.
C3_Claim ==
    /\ pc = "next" =>
          LET url_ == fetch_next_url(soup_)
          IN  IF ValidAnchor(soup_.anchors)
              THEN url_ = [kind |-> "url", href |-> soup_.anchors[1].href]
              ELSE url_ = [kind |-> "none", href |-> <<>>]
    /\ Len(steps) = 6 =>
          IF ValidAnchor(soup_.anchors)
          THEN pc \in {"save", "killed"} /\ page_ = JoinUrl(soup_.anchors[1].href)
          ELSE pc = "done"


\* C4: after the pages of a run with counts c1..cn, total_requests.txt holds
\* its pre-run value plus c1 + ... + cn, and after page k the pre-run value
\* plus c1 + ... + ck; no count is negative, so the counter never decreases.
C4_Thm ==
    /\ completed # <<>> => CounterReadable(started.counter)
    /\ \A k \in 1..Len(completed) :
          /\ completed[k].count >= 0
          /\ completed[k].total =
                CounterValue(started.counter) + SumCounts(completed, k)
    /\ CounterReadable(started.counter) =>
          /\ CounterReadable(counter)
          /\ CounterValue(counter) =
                CounterValue(started.counter) + SumCounts(completed, Len(completed))

C4_Witness ==
    /\ Len(completed) = 2
    /\ completed[1].count > 0
    /\ completed[2].count > 0
    /\ pc = "done"

\* C5: on a chain of n pages that ends in a page without next-page anchor,
\* a run that no fault stops halts after fetching exactly the n pages in
\* chain order, and pages.txt gains their n URLs in that order; on a chain
\* that revisits a page the run never halts.
C5_Thm ==
    /\ [](IsChain(site) /\ pc = "done" =>
            /\ fetched = Chain(site)
            /\ pagesLog = started.pages \o Chain(site))
    /\ (IsChain(site) /\ pc = "init" /\ fetches + Len(Chain(site)) <= MaxFetches)
          ~> (pc = "done" \/ Faulted)
    /\ [](Revisits(site) => pc # "done")

C5_Witness == IsChain(site) /\ pc = "done" /\ Len(fetched) = 3

\* C6: foi_requests.csv, once it exists, is the header row followed by every
\* data row ever written, in the order written: init_csv_file writes the
\* header into a new file only, and rows are only appended, over all runs.
C6_Thm ==
    /\ csv.exists => csv.rows = <<CSV_HEADERS>> \o written
    /\ ~csv.exists => written = <<>> /\ pc \in {"init", "killed"}
    /\ \A i \in 2..Len(csv.rows) : csv.rows[i] # CSV_HEADERS

\* A later run has initialized over a file that holds rows of an earlier one
C6_Witness == pc = "save" /\ fetched = <<>> /\ Len(started.csvRows) > 1

\* C7 as stated: when the run is terminated, the files describe exactly the
\* completed pages: the CSV holds their rows and no row that the counter
\* does not account for, the counter holds the pre-run value plus their
\* counts, and pages.txt holds their URLs.
C7_Claim ==
    pc \in {"killed", "crashed"} =>
        /\ RowsAdded = RowsOf(completed)
        /\ CounterReadable(started.counter) =>
              CounterValue(counter) =
                 CounterValue(started.counter) + SumCounts(completed, Len(completed))
        /\ IsPrefix(UrlsOf(completed), LinesAdded)

\* C7 as amended: wherever the run is terminated, nothing of a completed
\* page (one whose counter update is written) is lost: the CSV holds the
\* rows of the completed pages, the counter the pre-run value plus their
\* counts, pages.txt their URLs.  Beyond that the files hold of the page in
\* flight its URL, once logged, and its rows from append_to_csv until
\* count_requests, which the counter does not account for.
C7_Thm ==
    /\ RowsAdded = RowsOf(completed) \o (IF Len(steps) = 4 THEN result_.rows ELSE <<>>)
    /\ IsPrefix(started.csvRows, csv.rows)
    /\ IF CounterReadable(started.counter)
       THEN /\ CounterReadable(counter)
            /\ CounterValue(counter) =
                  CounterValue(started.counter) + SumCounts(completed, Len(completed))
       ELSE counter = started.counter /\ completed = <<>>
    /\ LinesAdded = UrlsOf(completed) \o (IF Len(steps) \in 1..4 THEN <<page_>> ELSE <<>>)
    /\ IsPrefix(started.pages, pagesLog)

\* Killed between append_to_csv and count_requests on a second page
C7_Witness ==
    /\ pc = "killed"
    /\ Len(steps) = 4
    /\ result_.rows # <<>>
    /\ completed # <<>>

\* C8 as stated: with total_requests.txt absent or not an integer, the run
\* ends abnormally on its first page, never creates or rewrites the counter
\* file, and fails at the counter read before any row of the page is written.
C8_Claim ==
    started.counter \in BadCounterFiles =>
        /\ counter = started.counter
        /\ Len(fetched) <= 1
        /\ pc \notin {"count", "next", "done"}
        /\ CounterFault => RowsAdded = <<>>

\* C8 as amended: with total_requests.txt absent or not an integer, the run
\* ends abnormally on its first page, never creates or rewrites the counter
\* file and fetches no second page; the failure is raised at the counter
\* read of append_to_csv's success line, after all rows of that page were
\* appended to foi_requests.csv.
C8_Thm ==
    started.counter \in BadCounterFiles =>
        /\ counter = started.counter
        /\ Len(fetched) <= 1
        /\ pc \notin {"count", "next", "done"}
        /\ CounterFault => Len(steps) = 4 /\ RowsAdded = result_.rows

C8_Witness ==
    /\ started.counter = NoFile
    /\ pc = "crashed"
    /\ err = "FileNotFoundError"
    /\ RowsAdded # <<>>

\* C9: in every loop iteration the calls come in the order save, fetch,
\* extract, append, count, next: the URL is in pages.txt before its page is
\* fetched, the rows are in the CSV before the counter is updated, and a
\* next page is logged only after the counter update of the current one.
C9_Thm ==
    /\ IsPrefix(steps, Iteration)
    /\ IsPrefix(fetched, LinesAdded)
    /\ Len(LinesAdded) <= Len(fetched) + 1
    /\ IsPrefix(UrlsOf(completed), fetched)
    /\ Len(fetched) <= Len(completed) + 1
    /\ IsPrefix(RowsOf(completed), RowsAdded)
    /\ Len(steps) >= 2 => pagesLog[Len(pagesLog)] = page_ \/ Len(steps) = 6
    /\ Len(steps) >= 5 => completed # <<>> /\ completed[Len(completed)].rows = result_.rows

C9_Witness == Len(steps) = 6 /\ Len(completed) = 2 /\ pc = "save"

\* C10: at the end of every completed page the counter's increase over the
\* run equals the number of rows the run appended to foi_requests.csv, and
\* the total of the success log line equals the counter then written.
C10_Claim ==
    pc = "next" =>
        /\ CounterValue(counter) - CounterValue(started.counter) = Len(RowsAdded)
        /\ logTotal = CounterValue(counter)

==========================================================================
